---- MODULE Spec2Model ----
(***************************************************************************)
(* The chunked upload engine of rxjs-file-upload.                          *)
(*                                                                         *)
(* The repository holds two versions of the engine, and both are modelled: *)
(*   version "A"  src/src/chunkUpload.ts  (RxJS 5, patch operators): no    *)
(*                event stream; start() subscribes a shared upload$.       *)
(*   version "B"  src/unnamed/part_000    (RxJS 6, pipeable operators):    *)
(*                one output stream upload$ of UploadEvents.               *)
(* The version is chosen in Init and never changes.                        *)
(*                                                                         *)
(* An action is one callback of the single-threaded program: a call of a   *)
(* control method, or the arrival of a response / progress notification of *)
(* a POST.  Everything the callback causes synchronously (operators        *)
(* completing, re-subscribing, the next POSTs being issued, events being   *)
(* emitted, cleanUp) is part of the same action.  The synchronous cascades *)
(* are written as operators on a record of the engine state.               *)
(*                                                                         *)
(* The engine is taken as subscribed from construction on (version B: one  *)
(* subscriber of upload$).                                                 *)
(***************************************************************************)
EXTENDS Integers, Sequences, FiniteSets, TLC

\* ---------------------------------------------------------------- bounds
MaxChunks == 4          \* FileMeta.chunks ranges over 1..MaxChunks
MaxUploaded == 1        \* FileMeta.uploadedChunks holds indices below it
MaxProgress == 1        \* progress notifications per behaviour
ChunkSize == 1          \* FileMeta.chunkSize: bytes of a chunk
MaxSize == 8            \* sliceFile: file.size ranges over 0..MaxSize
MaxChunkSize == 3       \* sliceFile: chunkSize ranges over 0..MaxChunkSize

\* --------------------------------------------------------- program state
VARIABLES
  version,      \* "A" | "B"
  fileMeta,     \* the FileMeta the server answers the session-open with
  cache,        \* startChunkUpload: let cache; {} is null, else {FileMeta}
  pc,           \* where the pipeline is
  run,          \* uploadAllChunks(...).takeUntil(pause$).repeatWhen(resume$)
  inflight,     \* chunk POSTs in flight (the active inners of mergeAll(3))
  nxt,          \* next index mergeAll takes from its buffer
  completed,    \* indices whose `completed` flag is set
  acc,          \* the mergeScan accumulator {completes, errors}
  errorsCount,  \* errorsCount of the latest fold
  hasValue,     \* mergeScan: a value was emitted in this subscription
  seenValue,    \* single: the predicate matched in this subscription
  rLast,        \* repeatWhen's resume$: last value of its distinctUntilChanged
  evLast,       \* progress$'s pause$/resume$: last value seen (version B)
  retrySub,     \* retryWhen's notifier is subscribed to retrySubject
  started,      \* startSubject holds a value
  closed,       \* the subjects are closed (cleanUp ran)
  stream,       \* the output stream: "open" | "complete" | "error"
  events,       \* the latest events of the output stream (version B)
  lastError,    \* the error that last reached retryWhen
  control,      \* last call of controlSubject.next: "pause" | "resume"
  loaded,       \* progress$: the scan accumulator, loaded bytes per index
  lastProg,     \* progress$: last value passed by distinctUntilChanged
  openPosts,    \* session-open POSTs issued
  chunkPosts,   \* chunk POSTs issued, per index
  finishPosts,  \* finish POSTs issued
  finishEvents, \* finish events emitted
  startEvents,  \* start events emitted
  exc,          \* a control method threw
  nProgress,    \* progress notifications so far
  progressLog,  \* the values of the progress events emitted (version B)
  sliceArgs,    \* sliceFile: file.size, chunks and chunkSize of the call
  result        \* sliceFile: {} before the call, then {the Blob[] returned}

consts == <<version, fileMeta, sliceArgs, result>>
budget == <<nProgress, progressLog>>
vars == <<version, fileMeta, cache, pc, run, inflight, nxt,
          completed, acc, errorsCount, hasValue, seenValue, rLast, evLast,
          retrySub, started, closed, stream, events, lastError, control,
          loaded, lastProg, openPosts, chunkPosts, finishPosts, finishEvents,
          startEvents, exc, nProgress, progressLog, sliceArgs, result>>

Null == "null"
Multiple_Chunk_Upload_Error == "Multiple_Chunk_Upload_Error"

Min(a, b) == IF a < b THEN a ELSE b
Max(a, b) == IF a > b THEN a ELSE b
Indices == 0 .. (fileMeta.chunks - 1)
\* The request and event counters tell none, one, two and more apart.
Inc(n) == Min(n + 1, 3)

\* The engine state as one record, for the synchronous cascades.
Cur ==
  [cache |-> cache, pc |-> pc, run |-> run, inflight |-> inflight, nxt |-> nxt,
   completed |-> completed, acc |-> acc, errorsCount |-> errorsCount,
   hasValue |-> hasValue, seenValue |-> seenValue, rLast |-> rLast,
   evLast |-> evLast, retrySub |-> retrySub, started |-> started,
   closed |-> closed, stream |-> stream, events |-> events,
   lastError |-> lastError, control |-> control, loaded |-> loaded,
   lastProg |-> lastProg, openPosts |-> openPosts, chunkPosts |-> chunkPosts,
   finishPosts |-> finishPosts, finishEvents |-> finishEvents,
   startEvents |-> startEvents, exc |-> exc]

\* (t is evaluated once, as the element of a singleton.)
Set(t) ==
  /\ \E r \in {t} :
    /\ cache' = r.cache /\ pc' = r.pc /\ run' = r.run /\ inflight' = r.inflight
    /\ nxt' = r.nxt /\ completed' = r.completed /\ acc' = r.acc
    /\ errorsCount' = r.errorsCount /\ hasValue' = r.hasValue
    /\ seenValue' = r.seenValue /\ rLast' = r.rLast /\ evLast' = r.evLast
    /\ retrySub' = r.retrySub /\ started' = r.started /\ closed' = r.closed
    /\ stream' = r.stream /\ events' = r.events /\ lastError' = r.lastError
    /\ control' = r.control /\ loaded' = r.loaded /\ lastProg' = r.lastProg
    /\ openPosts' = r.openPosts /\ chunkPosts' = r.chunkPosts
    /\ finishPosts' = r.finishPosts /\ finishEvents' = r.finishEvents
    /\ startEvents' = r.startEvents /\ exc' = r.exc
  /\ UNCHANGED consts

\* ------------------------------------------------------------- constants
\* mergeAll(3): the number of chunk requests subscribed at once.
ConcurrentOff == 3 + 1
Concurrent == 3

\* mergeScan's test of errorsCount.  Version A: errorsCount >= (chunks.length
\* > 3 ? 3 : 1).  Version B: if (errorsCount), that is errorsCount >= 1.
Threshold ==
  IF version = "A" THEN (IF fileMeta.chunks > 3 THEN 3 ELSE 1) ELSE 1

\* let completed = ... of a new chunk request.  Version A seeds the flag
\* from fileMeta.uploadedChunks, version B starts every flag at false.
InitialCompleted ==
  IF version = "A" THEN fileMeta.uploadedChunks ELSE {}

\* tap((fileMeta) => (cache = fileMeta)) of startChunkUpload.
tapCacheOff(meta) == {}
tapCache(meta) == {meta}

\* ---------------------------------------------------------------- events
\* `events` keeps the three latest events.
LastN(s) ==
  IF Len(s) <= 3 THEN s ELSE SubSeq(s, Len(s) - 2, Len(s))

\* createAction(...) values reaching the subscriber of upload$ (version B;
\* version A has no event stream).
Emit(t, evs) ==
  IF version = "B" THEN [t EXCEPT !.events = LastN(@ \o evs)] ELSE t

\* cleanUp: every subject is completed / unsubscribed, so .closed is true.
cleanUp(t) == [t EXCEPT !.closed = TRUE]

\* The source of retryWhen / takeUntil is unsubscribed: every POST in flight
\* is cancelled, and the subscriptions to controlSubject and progressSubject
\* made inside it are gone.
Unsubscribed(t) ==
  [t EXCEPT !.run = "none", !.inflight = {}, !.nxt = 0, !.hasValue = FALSE,
            !.seenValue = FALSE, !.rLast = "unsub", !.evLast = "unsub",
            !.lastProg = -1]

\* An error reaches retryWhen.  The source is unsubscribed first, then the
\* notifier sees the error.
\*  B: tap(errorSubject.next(e); retrySubject.next(false)), then switchMap:
\*     Multiple_Chunk_Upload_Error waits on retrySubject, anything else is
\*     rethrown and reaches tap(.., cleanUp, ..) and the subscriber.
\*  A: e$.concatMap: the first Multiple_Chunk_Upload_Error subscribes
\*     retrySubject, which never completes, so every later error stays in
\*     concatMap's buffer; another first error is rethrown to
\*     subscribe(cleanUp, cleanUp).
RaiseError(t, e) ==
  LET u == [Unsubscribed(t) EXCEPT !.lastError = e] IN
  IF version = "B"
  THEN LET w == Emit(u, <<"error", "retryable(true)">>) IN
       IF e = Multiple_Chunk_Upload_Error
       THEN [w EXCEPT !.pc = "waitRetry", !.retrySub = TRUE]
       ELSE cleanUp([w EXCEPT !.pc = "failed", !.stream = "error",
                              !.retrySub = FALSE])
  ELSE IF t.retrySub
       THEN [u EXCEPT !.pc = "waitRetry"]
       ELSE IF e = Multiple_Chunk_Upload_Error
            THEN [u EXCEPT !.pc = "waitRetry", !.retrySub = TRUE]
            ELSE cleanUp([u EXCEPT !.pc = "failed", !.stream = "error"])

\* ------------------------------------------------------------ dispatcher
\* finishChunkUpload: the finish POST is issued.
finishChunkUpload(t) ==
  [t EXCEPT !.pc = "finishing", !.finishPosts = Inc(@)]

\* single((acc) => Object.keys(acc.completes).length === chunks.length):
\* one value arrives at single.
single(t) ==
  IF Cardinality(t.acc.completes) = fileMeta.chunks
  THEN IF t.seenValue
       THEN RaiseError(t, "Sequence contains more than one element")
       ELSE [t EXCEPT !.seenValue = TRUE]
  ELSE t

\* repeatWhen(() => resume$) after its source completed: it waits on
\* resume$, which it subscribes the first time.
Park(t) ==
  [t EXCEPT !.run = "parked", !.inflight = {}, !.nxt = 0, !.hasValue = FALSE,
            !.seenValue = FALSE,
            !.rLast = IF @ = "unsub" THEN "none" ELSE @]

\* mergeAll completed.  mergeScan emits its accumulator if it emitted no
\* value yet; single, having seen a value, emits (the match or undefined)
\* and completes.
\*  B: take(1) passes the value, chunks$ ends progress$ (takeUntil(chunks$)),
\*     concat subscribes finish$.
\*  A: mapTo(fileMeta) reaches the second concatMap, which issues the finish
\*     POST unless one is in flight; repeatWhen then waits on resume$.
CompleteRunOff(t) ==
  LET a == IF t.hasValue THEN t ELSE single(t) IN
  IF a.run # "active" THEN a
  ELSE IF ~a.seenValue THEN RaiseError(a, "no elements in sequence")
  ELSE IF version = "B" THEN finishChunkUpload(Unsubscribed(a))
  ELSE Park(IF a.pc = "dispatch" THEN finishChunkUpload(a) ELSE a)

CompleteRun(t) ==
  LET a == IF t.hasValue THEN t ELSE single(t) IN
  IF a.run # "active" THEN a
  ELSE IF version = "B" THEN finishChunkUpload(Unsubscribed(a))
  ELSE Park(IF a.pc = "dispatch" THEN finishChunkUpload(a) ELSE a)

\* from(chunkRequests$).mergeAll(3): subscribe buffered chunk requests in
\* index order while fewer than three are active.  A request whose completed
\* flag is set is empty(); the others POST the chunk.
RECURSIVE mergeAll(_)
mergeAll(t) ==
  IF Cardinality(t.inflight) < Concurrent /\ t.nxt < fileMeta.chunks
  THEN IF t.nxt \in t.completed
       THEN mergeAll([t EXCEPT !.nxt = @ + 1])
       ELSE mergeAll([t EXCEPT !.nxt = @ + 1,
                               !.inflight = @ \cup {t.nxt},
                               !.chunkPosts[t.nxt] = Inc(@)])
  ELSE t

\* A chunk request completed: the next ones start, or the run completes.
AfterInner(t) ==
  LET a == mergeAll(t) IN
  IF t.run # "active" THEN t
  ELSE IF a.inflight = {} /\ a.nxt = fileMeta.chunks THEN CompleteRun(a)
  ELSE a

\* Subscribing uploadAllChunks(...).pipe(takeUntil(pause$)).
SubscribeRun(t) ==
  AfterInner([t EXCEPT !.run = "active", !.inflight = {}, !.nxt = 0,
                       !.hasValue = FALSE, !.seenValue = FALSE])

\* The mergeScan accumulator function on ChunkStatus {index: i, completed: ok}.
Throws(t, i, ok) ==
  Cardinality(IF ok THEN t.acc.errors ELSE t.acc.errors \cup {i}) >= Threshold

mergeScan(t, i, ok) ==
  LET a == IF ok THEN [t.acc EXCEPT !.completes = @ \cup {i}]
                 ELSE [t.acc EXCEPT !.errors = @ \cup {i}]
      n == Cardinality(a.errors)
  IN IF Throws(t, i, ok)
     THEN RaiseError([t EXCEPT !.acc = [a EXCEPT !.errors = {}],
                               !.errorsCount = n],
                     Multiple_Chunk_Upload_Error)
     ELSE AfterInner(single([t EXCEPT !.acc = a, !.errorsCount = n,
                                      !.hasValue = TRUE]))

\* uploadAllChunks(chunks, fileMeta, ...): new chunk requests and a new seed.
uploadAllChunks(t) ==
  [t EXCEPT !.completed = InitialCompleted,
            !.acc = [completes |-> {}, errors |-> {}]]

\* ------------------------------------------------------------- pipeline
\* The FileMeta is there: chunkstart (B), then the dispatcher is built and
\* subscribed; in B progress$ subscribes chunks$ first, then progressSubject
\* and the pausable events.
BeginDispatch(t) ==
  LET a == Emit(t, <<"chunkstart">>) IN
  SubscribeRun(uploadAllChunks(
    [a EXCEPT !.pc = "dispatch",
              !.evLast = IF version = "B" THEN "none" ELSE "unsub",
              !.lastProg = -1]))

\* startChunkUpload: defer(() => cache ? of(cache) : post(...)).
startChunkUpload(t) ==
  IF t.cache # {}
  THEN BeginDispatch(t)
  ELSE [t EXCEPT !.pc = "opening", !.openPosts = Inc(@)]

\* Subscribing the source of retryWhen.
\*  B: concat(startSubject.pipe(take(1), map(start)), of(pausable(true)),
\*     of(retryable(false)), start$..., progress$, finish$, ...); startSubject
\*     is a ReplaySubject(1).
\*  A: create$.concatMap(...).
Subscribe(t) ==
  IF version = "B"
  THEN IF t.started
       THEN startChunkUpload(
              Emit([t EXCEPT !.startEvents = Inc(@)],
                   <<"start", "pausable(true)", "retryable(false)">>))
       ELSE [t EXCEPT !.pc = "idle"]
  ELSE startChunkUpload(t)

\* ------------------------------------------------------------- sliceFile
\* Blob.slice(start, end) on a blob of `size` bytes: a negative offset counts
\* from the end, both offsets are clamped to [0, size] and the span is never
\* negative.  A Blob is written as the byte range [from, to) it holds.
Clamp(x, size) == IF x < 0 THEN Max(size + x, 0) ELSE Min(x, size)

slice(size, s, e) ==
  LET from == Clamp(s, size)
      to == Clamp(e, size)
  IN [from |-> from, to |-> Max(to, from)]

\* const startSize = i * chunkSize
startSize(i, chunkSize) == i * chunkSize

\* const endSize = i === chunks - 1 ? startSize + (file.size - startSize)
\*                                   : (i + 1) * chunkSize
endSizeOff(i, size, chunks, chunkSize) ==
  IF i = chunks - 1
  THEN size - startSize(i, chunkSize)
  ELSE (i + 1) * chunkSize

endSize(i, size, chunks, chunkSize) ==
  IF i = chunks - 1
  THEN startSize(i, chunkSize) + (size - startSize(i, chunkSize))
  ELSE (i + 1) * chunkSize

\* for (let i = 0; i < chunks; i++) { ...; result.push(slice) }
RECURSIVE sliceLoop(_, _, _, _, _)
sliceLoop(i, res, size, chunks, chunkSize) ==
  IF i < chunks
  THEN sliceLoop(i + 1,
                 Append(res, slice(size, startSize(i, chunkSize),
                                   endSize(i, size, chunks, chunkSize))),
                 size, chunks, chunkSize)
  ELSE res

\* sliceFile(file, chunks, chunkSize), the same code in both versions.  The
\* engine only uses the length of the array (chunks.length) and hands each
\* Blob to its POST.
sliceFile(size, chunks, chunkSize) == sliceLoop(0, <<>>, size, chunks, chunkSize)

\* ------------------------------------------------------------------ Init
FileMetas ==
  { [chunks |-> n, uploadedChunks |-> u] :
      n \in 1 .. MaxChunks, u \in SUBSET (0 .. (MaxUploaded - 1)) }

Constructed ==
  [cache |-> {}, pc |-> "idle", run |-> "none", inflight |-> {}, nxt |-> 0,
   completed |-> {}, acc |-> [completes |-> {}, errors |-> {}],
   errorsCount |-> 0, hasValue |-> FALSE, seenValue |-> FALSE,
   rLast |-> "unsub", evLast |-> "unsub", retrySub |-> FALSE,
   started |-> FALSE, closed |-> FALSE, stream |-> "open", events |-> <<>>,
   lastError |-> Null, control |-> "none",
   loaded |-> [i \in Indices |-> 0], lastProg |-> -1, openPosts |-> 0,
   chunkPosts |-> [i \in Indices |-> 0], finishPosts |-> 0,
   finishEvents |-> 0, startEvents |-> 0, exc |-> FALSE]

\* chunkUpload(file, config): version B calls start() when config.autoStart
\* is not false, and upload$ is subscribed; version A waits for start().
InitFrom(t) ==
  /\ cache = t.cache /\ pc = t.pc /\ run = t.run /\ inflight = t.inflight
  /\ nxt = t.nxt /\ completed = t.completed /\ acc = t.acc
  /\ errorsCount = t.errorsCount /\ hasValue = t.hasValue
  /\ seenValue = t.seenValue /\ rLast = t.rLast /\ evLast = t.evLast
  /\ retrySub = t.retrySub /\ started = t.started /\ closed = t.closed
  /\ stream = t.stream /\ events = t.events /\ lastError = t.lastError
  /\ control = t.control /\ loaded = t.loaded /\ lastProg = t.lastProg
  /\ openPosts = t.openPosts /\ chunkPosts = t.chunkPosts
  /\ finishPosts = t.finishPosts /\ finishEvents = t.finishEvents
  /\ startEvents = t.startEvents /\ exc = t.exc

\* Every uploadedChunks within [0, chunks).
AllFileMetas ==
  { [chunks |-> n, uploadedChunks |-> u] :
      n \in 1 .. MaxChunks, u \in SUBSET (0 .. (MaxChunks - 1)) }

InitOf(metas) ==
  /\ version \in {"A", "B"}
  /\ fileMeta \in metas
  /\ fileMeta.uploadedChunks \subseteq Indices
  /\ \E autoStart \in BOOLEAN :
       InitFrom(IF version = "B"
                THEN Subscribe([Constructed EXCEPT !.started = autoStart])
                ELSE Constructed)
  /\ nProgress = 0
  /\ progressLog = <<>>
  /\ sliceArgs = [size |-> fileMeta.chunks * ChunkSize,
                  chunks |-> fileMeta.chunks, chunkSize |-> ChunkSize]
  /\ result = {}

Init == InitOf(FileMetas)

\* sliceFile on its own: any size, chunks and chunkSize within the bounds.
SliceInputs ==
  [size : 0 .. MaxSize, chunks : 0 .. MaxChunks, chunkSize : 0 .. MaxChunkSize]

SliceInit ==
  /\ version \in {"A", "B"}
  /\ fileMeta = [chunks |-> 1, uploadedChunks |-> {}]
  /\ InitFrom(Constructed)
  /\ nProgress = 0
  /\ progressLog = <<>>
  /\ sliceArgs \in SliceInputs
  /\ result = {}

\* --------------------------------------------------------------- actions
\* A call on a closed subject.  B guards every call with `.closed`, so it
\* does nothing.  A calls next() on an unsubscribed Subject, which throws.
ClosedCall(t) ==
  IF version = "B" THEN t ELSE [t EXCEPT !.exc = TRUE]

\* start().  B: if (!startSubject.closed) startSubject.next({}); the value
\* reaches take(1) if the pipeline waits for it.  A: upload$.subscribe(
\* cleanUp, cleanUp); upload$ is shared (publishReplay(1).refCount()), so
\* only the first call connects it.
start(t) ==
  IF version = "B" /\ t.closed THEN t
  ELSE IF t.pc = "idle" THEN Subscribe([t EXCEPT !.started = TRUE])
  ELSE [t EXCEPT !.started = TRUE]

Start ==
  /\ Set(start(Cur))
  /\ UNCHANGED budget

\* The session-open POST answers with the FileMeta.
OpenOk ==
  /\ pc = "opening"
  /\ Set(BeginDispatch([Cur EXCEPT !.cache = tapCache(fileMeta)]))
  /\ UNCHANGED budget

\* The session-open POST fails.
OpenFail ==
  /\ pc = "opening"
  /\ Set(RaiseError(Cur, "SessionOpenFailed"))
  /\ UNCHANGED budget

\* The POST of chunk i succeeds: tap(() => (completed = true)), then the
\* ChunkStatus goes through mergeAll into mergeScan.
ChunkOk(i) ==
  /\ i \in inflight
  /\ Set(mergeScan([Cur EXCEPT !.completed = @ \cup {i},
                               !.inflight = @ \ {i}], i, TRUE))
  /\ UNCHANGED budget

\* The POST of chunk i fails: catchError(() => of({index, completed: false})).
ChunkFail(i) ==
  /\ i \in inflight
  /\ Set(mergeScan([Cur EXCEPT !.inflight = @ \ {i}], i, FALSE))
  /\ UNCHANGED budget

\* The tail of concat: finish$.pipe(map(finish)), of(pausable(false)),
\* of(retryable(false)).
FinishEventsOff == <<"pausable(false)", "retryable(false)", "finish">>
FinishEvents == <<"finish", "pausable(false)", "retryable(false)">>

\* The finish POST answers.  B: finish, then the closing pausable(false) and
\* retryable(false) of concat, then complete and cleanUp.  A: take(1) emits
\* to subscribe(cleanUp, ...) and completes.
FinishOk ==
  /\ pc = "finishing"
  /\ Set(cleanUp(
       [Emit(Unsubscribed(Cur), FinishEvents)
        EXCEPT !.pc = "done", !.stream = "complete", !.retrySub = FALSE,
               !.finishEvents = Inc(@)]))
  /\ UNCHANGED budget

\* The finish POST fails.
FinishFail ==
  /\ pc = "finishing"
  /\ Set(RaiseError(Cur, "FinishFailed"))
  /\ UNCHANGED budget

\* The transport reports `l` loaded bytes of chunk i:
\* progressSubject.next({index, loaded}), then progress$: scan, combineLatest
\* with the FileMeta, the sum (over fileMeta.fileSize), and
\* distinctUntilChanged((x, y) => x > y), which drops the value when the
\* previous one is greater.
RECURSIVE Sum(_, _)
Sum(f, n) == IF n = 0 THEN 0 ELSE f[n - 1] + Sum(f, n - 1)

ProgressUpTo(i, l, n) ==
  /\ i \in inflight
  /\ nProgress < n
  /\ LET ld == [loaded EXCEPT ![i] = l]
         v == Sum(ld, fileMeta.chunks)
     IN IF lastProg > v
        THEN /\ Set([Cur EXCEPT !.loaded = ld])
             /\ progressLog' = progressLog
        ELSE /\ Set(Emit([Cur EXCEPT !.loaded = ld, !.lastProg = v],
                         <<"progress">>))
             /\ progressLog' = IF version = "B"
                               THEN Append(progressLog, v)
                               ELSE progressLog
  /\ nProgress' = nProgress + 1

Progress(i, l) == ProgressUpTo(i, l, MaxProgress)

\* pause(): controlSubject.next(true).  Every subscriber has its own
\* distinctUntilChanged.  takeUntil(pause$) completes the run, which cancels
\* its POSTs; repeatWhen then waits on resume$.
pause(t) ==
  IF t.closed THEN ClosedCall(t)
  ELSE LET a == [t EXCEPT !.control = "pause"]
           b == IF a.evLast \notin {"unsub", "T"}
                THEN Emit([a EXCEPT !.evLast = "T"], <<"pausable(false)">>)
                ELSE a
           c == [b EXCEPT !.rLast = IF @ = "unsub" THEN @ ELSE "T"]
       IN IF c.run = "active" THEN Park(c) ELSE c

Pause ==
  /\ Set(pause(Cur))
  /\ UNCHANGED budget

\* resume(): controlSubject.next(false).  repeatWhen subscribes its source
\* again when resume$ emits.
resume(t) ==
  IF t.closed THEN ClosedCall(t)
  ELSE LET a == [t EXCEPT !.control = "resume"]
           b == IF a.evLast \notin {"unsub", "F"}
                THEN Emit([a EXCEPT !.evLast = "F"], <<"pausable(true)">>)
                ELSE a
       IN IF b.rLast \notin {"unsub", "F"}
          THEN SubscribeRun([b EXCEPT !.rLast = "F"])
          ELSE b

Resume ==
  /\ Set(resume(Cur))
  /\ UNCHANGED budget

\* retry(): retrySubject.next(true) (A: next()).  B maps every value of
\* retrySubject to retryable(!b).  If the notifier of retryWhen is subscribed
\* to retrySubject, retryWhen unsubscribes its source and subscribes it again.
retry(t) ==
  IF t.closed THEN ClosedCall(t)
  ELSE LET a == Emit(t, <<"retryable(false)">>)
       IN IF a.retrySub THEN Subscribe(Unsubscribed(a)) ELSE a

Retry ==
  /\ Set(retry(Cur))
  /\ UNCHANGED budget

\* abort(): abortSubject.next().
\*  B: takeUntil(abortSubject) is the first observer.  It completes: first
\*     downstream, where tap runs cleanUp, then it unsubscribes its source.
\*     cleanUp completes the subjects while the source is still subscribed:
\*     progressSubject.complete() (after controlSubject.complete()) completes
\*     progress$, and startSubject.complete() completes take(1), so concat
\*     subscribes what follows: finish$ issues the finish POST, start$ the
\*     session-open POST.  The unsubscription then cancels every POST.
\*     abortSubject.complete() stops the second observer, the one that maps
\*     to pausable(false), retryable(false), before the value reaches it.
\*  A: takeUntil(abortSubject) completes upload$ if start() subscribed it;
\*     subscribe(cleanUp, cleanUp) has no complete handler.
AbortPosts(t) ==
  IF t.pc = "idle" THEN [t EXCEPT !.openPosts = Inc(@)]
  ELSE IF t.pc = "dispatch" THEN [t EXCEPT !.finishPosts = Inc(@)]
  ELSE t

AbortEvents == <<>>

abort(t) ==
  IF t.closed THEN ClosedCall(t)
  ELSE IF version = "B"
       THEN cleanUp(
              [Emit(Unsubscribed(AbortPosts(t)), AbortEvents)
               EXCEPT !.pc = "aborted", !.stream = "complete",
                      !.retrySub = FALSE])
       ELSE IF t.pc \in {"opening", "dispatch", "finishing", "waitRetry"}
            THEN [Unsubscribed(t) EXCEPT !.pc = "aborted",
                                         !.stream = "complete",
                                         !.retrySub = FALSE]
            ELSE t

Abort ==
  /\ Set(abort(Cur))
  /\ UNCHANGED budget

\* ------------------------------------------------------------------ Spec
Next ==
  \/ Start
  \/ OpenOk
  \/ OpenFail
  \/ \E i \in Indices : ChunkOk(i)
  \/ \E i \in Indices : ChunkFail(i)
  \/ \E i \in Indices : \E l \in 0 .. ChunkSize : Progress(i, l)
  \/ FinishOk
  \/ FinishFail
  \/ Pause
  \/ Resume
  \/ Retry
  \/ Abort

Spec == Init /\ [][Next]_vars

\* The clean run: every POST succeeds and the caller sends no control signal
\* but start().  Responses arrive eventually and the caller starts the
\* engine.
NextClean ==
  \/ Start
  \/ OpenOk
  \/ \E i \in Indices : ChunkOk(i)
  \/ \E i \in Indices : \E l \in 0 .. ChunkSize : Progress(i, l)
  \/ FinishOk

CleanSpec == InitOf(AllFileMetas) /\ [][NextClean]_vars /\ WF_vars(NextClean)

\* The clean run with one more progress notification, so that two progress
\* events can follow each other.
NextProgress ==
  \/ Start
  \/ OpenOk
  \/ \E i \in Indices : ChunkOk(i)
  \/ \E i \in Indices : \E l \in 0 .. ChunkSize :
       ProgressUpTo(i, l, MaxProgress + 1)
  \/ FinishOk

ProgressSpec == Init /\ [][NextProgress]_vars

\* A call of sliceFile with the arguments chosen in SliceInit.
SliceFile ==
  /\ result = {}
  /\ result' = {sliceFile(sliceArgs.size, sliceArgs.chunks,
                        sliceArgs.chunkSize)}
  /\ UNCHANGED <<version, fileMeta, sliceArgs, cache, pc, run, inflight, nxt,
                 completed, acc, errorsCount, hasValue, seenValue, rLast,
                 evLast, retrySub, started, closed, stream, events, lastError,
                 control, loaded, lastProg, openPosts, chunkPosts, finishPosts,
                 finishEvents, startEvents, exc, nProgress, progressLog>>

NextSlice == SliceFile

SliceSpec == SliceInit /\ [][NextSlice]_vars

\* The run the caller keeps alive: no abort, the session-open and finish
\* POSTs succeed, a chunk POST may fail, the caller pauses and resumes at any
\* moment and calls retry() when Multiple_Chunk_Upload_Error is pending.
NextLive ==
  \/ Start
  \/ OpenOk
  \/ \E i \in Indices : ChunkOk(i)
  \/ \E i \in Indices : ChunkFail(i)
  \/ FinishOk
  \/ Pause
  \/ Resume
  \/ (pc = "waitRetry" /\ Retry)

\* The caller starts the engine; a response arrives for every POST that stays
\* in flight; a chunk POST that is attempted again and again eventually
\* succeeds; a pause is followed by resume, a pending error by retry.
FairLive ==
  /\ WF_vars(Start)
  /\ WF_vars(OpenOk)
  /\ \A i \in 0 .. (MaxChunks - 1) : SF_vars(ChunkOk(i))
  /\ WF_vars(FinishOk)
  /\ WF_vars(control = "pause" /\ Resume)
  /\ WF_vars(pc = "waitRetry" /\ Retry)

LiveSpec == Init /\ [][NextLive]_vars /\ FairLive

TypeOK ==
  /\ pc \in {"idle", "opening", "dispatch", "finishing", "waitRetry", "done",
             "failed", "aborted"}
  /\ run \in {"none", "active", "parked"}
  /\ inflight \subseteq Indices
  /\ completed \subseteq Indices
  /\ (run = "active" /\ rLast # "unsub") => rLast = "F"
  /\ (inflight # {}) => run = "active"
  /\ version = "B" => (evLast # "unsub") = (pc = "dispatch")
  /\ version = "B" => (run # "none") = (pc = "dispatch")

\* ================================================================ claims
Terminal == pc \in {"done", "failed", "aborted"}
Running == {"opening", "dispatch", "finishing", "waitRetry"}
AllIndicesComplete ==
  acc.completes \cup fileMeta.uploadedChunks = Indices
EndsWith(seq, tail) ==
  /\ Len(seq) >= Len(tail)
  /\ SubSeq(seq, Len(seq) - Len(tail) + 1, Len(seq)) = tail

\* C1: the finish POST is in flight, or finish was emitted, only when every
\* chunk index is in completes (the indices of uploadedChunks counted as
\* complete); a run with a failed chunk below the threshold does not go on
\* to finish.
C1_FinishOnlyWhenAllComplete ==
  pc \in {"finishing", "done"} => AllIndicesComplete

\* C2: at most 3 chunk POSTs are in flight in every reachable state, also
\* after pause and resume and after retry subscribed the pipeline again.
C2_AtMostThreeInFlight == Cardinality(inflight) <= 3

\* A resumed run has three chunk POSTs in flight and a fourth chunk queued.
C2_Witness ==
  /\ Cardinality(inflight) = 3
  /\ nxt < fileMeta.chunks
  /\ rLast = "F"

\* C3: Multiple_Chunk_Upload_Error is raised exactly when the number of
\* failed indices in the accumulator reaches 3 (more than 3 chunks) or 1
\* (3 chunks or fewer): it is raised with at least that many, and fewer are
\* kept without raising it.
ClaimedThreshold == IF fileMeta.chunks > 3 THEN 3 ELSE 1

C3_ErrorExactlyAtThreshold ==
  /\ (pc = "waitRetry" /\ lastError = Multiple_Chunk_Upload_Error)
       => errorsCount >= ClaimedThreshold
  /\ Cardinality(acc.errors) < ClaimedThreshold

\* C4: in a clean run (no failure, no control signal) no index of
\* uploadedChunks is ever POSTed and no index is POSTed twice, and when the
\* run has succeeded every other index was POSTed exactly once.
C4_PostsExactlyTheMissing ==
  \A i \in Indices :
    /\ i \in fileMeta.uploadedChunks => chunkPosts[i] = 0
    /\ chunkPosts[i] <= 1
    /\ (pc = "done" /\ i \notin fileMeta.uploadedChunks) => chunkPosts[i] = 1

\* C5: in a clean run, whatever subset of [0, chunks) the server reports as
\* uploaded, finish is eventually emitted and the stream never fails.
C5_ResumedUploadCompletes ==
  /\ <>(pc = "done" /\ finishEvents = 1)
  /\ [](stream # "error" /\ pc # "waitRetry")

\* A clean run finished although the server reported every index uploaded.
C5_Witness ==
  /\ pc = "done"
  /\ finishEvents = 1
  /\ fileMeta.uploadedChunks = Indices

\* C6: at most one session-open POST is issued per engine.
C6_AtMostOneSessionOpen == openPosts <= 1

\* After a retry the pipeline dispatches again on the cached FileMeta.
C6_Witness ==
  /\ openPosts = 1
  /\ retrySub
  /\ pc = "dispatch"
  /\ inflight # {}

\* C7: abort() during session-open, chunk dispatch, pause, the wait for
\* retry or the finish POST cancels every POST in flight, issues
\* no POST, emits no finish and completes the stream without an error.
C7_AbortTerminates ==
  [][(pc' = "aborted" /\ pc \in Running)
       => /\ inflight' = {}
          /\ openPosts' = openPosts
          /\ chunkPosts' = chunkPosts
          /\ finishPosts' = finishPosts
          /\ finishEvents' = finishEvents
          /\ stream' = "complete"]_vars

\* C8: after abort() on a started engine the stream has emitted pausable(false), then
\* retryable(false), before it completed.
C8_AbortCleanupEvents ==
  (version = "B" /\ pc = "aborted" /\ started)
    => EndsWith(events, <<"pausable(false)", "retryable(false)">>)

C10_PausedMeansNoPost ==
  (control = "pause" /\ ~Terminal) => inflight = {}

\* The POSTs issued so far.
Posts == <<openPosts, chunkPosts, finishPosts>>

\* C11: an error re-enters the pipeline only by retry() after
\* Multiple_Chunk_Upload_Error.  While the engine waits for retry() no POST
\* is in flight and none is issued; a failed session-open or finish POST
\* makes the stream fail, and from then on no POST is issued, whatever is
\* called.
C11_OnlyRetryReenters ==
  [][/\ lastError' \in {"SessionOpenFailed", "FinishFailed"}
          => (pc' = "failed" /\ stream' = "error")
     /\ pc = "failed" => (Posts' = Posts /\ inflight' = {})
     /\ (pc = "waitRetry" /\ pc' = "waitRetry")
          => (Posts' = Posts /\ inflight' = {})]_vars

\* C12: retry() while no Multiple_Chunk_Upload_Error is pending is ignored by
\* the pipeline: it cancels no POST in flight, does not subscribe the
\* dispatcher again and issues no POST.
C12_RetryIgnoredUnlessPending ==
  [][(Retry /\ pc # "waitRetry")
       => (inflight' = inflight /\ Posts' = Posts /\ pc' = pc)]_vars

\* What a caller and the server can tell of an engine state.  resume$ lets
\* only false through, so a distinctUntilChanged that has seen nothing and
\* one that has seen true behave alike.
Observable(t) == [t EXCEPT !.rLast = IF @ = "none" THEN "T" ELSE @]

\* C13: every control method is idempotent: in every reachable state,
\* calling it twice in succession leaves the engine (events emitted, POSTs
\* issued and in flight, phase) as calling it once does.
C13_ControlMethodsIdempotent ==
  /\ Observable(start(start(Cur))) = Observable(start(Cur))
  /\ Observable(pause(pause(Cur))) = Observable(pause(Cur))
  /\ Observable(resume(resume(Cur))) = Observable(resume(Cur))
  /\ Observable(retry(retry(Cur))) = Observable(retry(Cur))
  /\ Observable(abort(abort(Cur))) = Observable(abort(Cur))

\* C14: the values of the progress events are strictly increasing and lie in
\* [0, 1], that is, the sums of loaded bytes they carry lie in [0, fileSize]
\* (fileSize = chunks * chunkSize; each transport reports loaded within
\* [0, chunkSize]).
C14_ProgressStrictlyIncreasing ==
  /\ \A k \in 1 .. Len(progressLog) :
       progressLog[k] \in 0 .. (fileMeta.chunks * ChunkSize)
  /\ \A k \in 1 .. (Len(progressLog) - 1) :
       progressLog[k] < progressLog[k + 1]

\* C15: the start event is emitted at most once per engine, and as long as
\* start() has not been called no session-open POST is issued and no event
\* is emitted.
C15_StartAtMostOnce ==
  /\ startEvents <= 1
  /\ ~started => (openPosts = 0 /\ events = <<>>)

\* C16: retryable(true) is emitted only for Multiple_Chunk_Upload_Error, with
\* the pipeline waiting for retry(); when that error occurs the stream emits
\* error, then retryable(true); and when retry() leaves the wait, a
\* retryable(false) is emitted.
C16_RetryableOnlyWhenRetryable ==
  [][version = "B" =>
      /\ (events' # events /\ EndsWith(events', <<"retryable(true)">>))
           => (pc' = "waitRetry"
               /\ lastError' = Multiple_Chunk_Upload_Error)
      /\ (pc # "waitRetry" /\ pc' = "waitRetry")
           => EndsWith(events', <<"error", "retryable(true)">>)
      /\ (pc = "waitRetry" /\ pc' \in {"opening", "dispatch"})
           => (\E k \in 1 .. Len(events') :
                 events'[k] = "retryable(false)")]_vars

\* C17: once the engine has terminated (finish, an unrecoverable error or
\* abort) a call of a control method emits no event, issues and cancels no
\* POST, changes no phase and throws nothing.
C17_CallsAfterTerminalAreNoOps ==
  [][Terminal =>
       /\ events' = events
       /\ Posts' = Posts
       /\ inflight' = inflight
       /\ pc' = pc
       /\ stream' = stream
       /\ ~exc']_vars

\* C18: when nobody aborts, the session-open and finish POSTs succeed, every
\* chunk POST succeeds eventually when attempted again, every pause is
\* followed by resume and every Multiple_Chunk_Upload_Error by retry, the
\* finish event is eventually emitted, once.
C18_UploadEventuallyFinishes == <>(pc = "done" /\ finishEvents = 1)

\* C19: for chunkSize * (chunks - 1) < size <= chunkSize * chunks, sliceFile
\* returns `chunks` slices in index order, slice i holding the bytes
\* [i * chunkSize, min((i + 1) * chunkSize, size)): the slices are contiguous,
\* do not overlap, cover [0, size) exactly, and each has length chunkSize
\* except the last, whose length is size - (chunks - 1) * chunkSize.
SlicePre ==
  /\ sliceArgs.chunkSize * (sliceArgs.chunks - 1) < sliceArgs.size
  /\ sliceArgs.size <= sliceArgs.chunkSize * sliceArgs.chunks

Bytes(b) == b.from .. (b.to - 1)

Returned == CHOOSE r \in result : TRUE

C19_SliceFileCoversFile ==
  (result # {} /\ SlicePre) =>
    LET size == sliceArgs.size
        n == sliceArgs.chunks
        cs == sliceArgs.chunkSize
    IN /\ Len(Returned) = n
       /\ \A i \in 0 .. (n - 1) :
            /\ Returned[i + 1].from = i * cs
            /\ Returned[i + 1].to = Min((i + 1) * cs, size)
            /\ Bytes(Returned[i + 1]) = (i * cs) .. (Min((i + 1) * cs, size) - 1)
       /\ \A k \in 1 .. (n - 1) : Returned[k].to = Returned[k + 1].from
       /\ \A j, k \in 1 .. n :
            j # k => Bytes(Returned[j]) \cap Bytes(Returned[k]) = {}
       /\ UNION { Bytes(Returned[k]) : k \in 1 .. n } = 0 .. (size - 1)
       /\ \A k \in 1 .. (n - 1) : Cardinality(Bytes(Returned[k])) = cs
       /\ n > 0 => Cardinality(Bytes(Returned[n])) = size - (n - 1) * cs

\* A file of three chunks whose last chunk is shorter than chunkSize.
C19_Witness ==
  /\ result # {}
  /\ SlicePre
  /\ sliceArgs.chunks = 3
  /\ sliceArgs.size - 2 * sliceArgs.chunkSize < sliceArgs.chunkSize
  /\ Len(Returned) = 3

\* C20: a chunk whose POST has succeeded is never POSTed again: once its
\* completed flag is set, no step (resume() after a pause and retry() after
\* Multiple_Chunk_Upload_Error included) issues another POST of that index.
C20_SucceededChunkNeverRePosted ==
  [][\A i \in Indices :
       (i \in completed /\ chunkPosts[i] > 0) =>
         chunkPosts'[i] = chunkPosts[i]]_vars

====
